---- MODULE Spec2Model ----
(***************************************************************************)
(* Model of ansible_docker_project/app.py: a Flask application object, one *)
(* route "/" whose view function `home` returns a constant string, and a   *)
(* main guard that starts the development server on 0.0.0.0:5000.         *)
(*                                                                         *)
(* The statements of app.py are calls into Flask; each is modelled by what *)
(* the call does with the arguments app.py passes (and the defaults of the *)
(* arguments it omits):                                                    *)
(*   Flask(__name__)   static_folder defaults to "static", so the          *)
(*                     constructor registers the rule                      *)
(*                     /static/<path:filename> with endpoint "static";     *)
(*   app.route('/')    methods defaults to GET; the rule gets HEAD with    *)
(*                     GET and OPTIONS (provide_automatic_options);        *)
(*   app.run(...)      runs the development server, which is threaded.     *)
(*                                                                         *)
(* A path is the sequence of its segments after the leading slash:         *)
(*   "/" is <<>>, "/missing" is <<"missing">>,                             *)
(*   "/static/style.css" is <<"static", "style.css">>.                     *)
(***************************************************************************)
EXTENDS Naturals, Sequences, FiniteSets

VARIABLES
    name,       \* __name__ of the module: "__main__" or the import name
    environ,    \* os.environ of the process
    argv,       \* sys.argv[1:] of the process
    pc,         \* statement of app.py about to execute
    app,        \* the Flask application object bound to `app`
    server,     \* the development server started by app.run
    handled,    \* number of requests answered so far (serial server)
    last,       \* the most recent request, its response and the view called
    firstRoot,  \* the response to the first GET / answered, when it was
                \* answered, and whether another request followed it
    prevRoot,   \* some GET / answered, its response, and when
    threads     \* in-flight request of each server thread (threaded server)

vars == <<name, environ, argv, pc, app, server, handled, last, firstRoot,
          prevRoot, threads>>

----------------------------------------------------------------------------
(* Bounds *)

MaxHandled == 3

NThreads == 2

Threads == 1..NThreads

----------------------------------------------------------------------------
(* Values *)

Greeting ==
    "Hello, I am Siddharth Chitikesi, Roll No: BCD21 ,this is my simple web app deployed with Ansible and Docker!"

Methods == {"GET", "HEAD", "OPTIONS", "POST", "PUT", "DELETE"}

RootPath == <<>>

Paths == {RootPath, <<"missing">>, <<"static">>, <<"static", "style.css">>}

\* query string, headers and body of a request: none, or one of them set
Variants ==
    { [query |-> "",    headers |-> "",           body |-> ""],
      [query |-> "x=1", headers |-> "",           body |-> ""],
      [query |-> "",    headers |-> "X-Debug: 1", body |-> ""],
      [query |-> "",    headers |-> "",           body |-> "payload"] }

Requests ==
    { [method |-> m, path |-> p, query |-> v.query, headers |-> v.headers,
       body |-> v.body] : m \in Methods, p \in Paths, v \in Variants }

\* requests offered to the threaded server
ConcPaths == {RootPath, <<"missing">>, <<"static", "style.css">>}

ConcRequests ==
    { r \in Requests : r.path \in ConcPaths /\ r.query = ""
                       /\ r.headers = "" /\ r.body = "" }

NoReq == [method |-> "", path |-> <<>>, query |-> "", headers |-> "", body |-> ""]

NoResp == [status |-> 0, body |-> ""]

Environs == { [HOST |-> "", PORT |-> 0], [HOST |-> "127.0.0.1", PORT |-> 8080] }

Argvs == { <<>>, <<"--port", "8080">> }

Names == {"__main__", "app"}

----------------------------------------------------------------------------
(* The application object *)

PathConverter == "<path:filename>"

\* files present in the static folder next to app.py: the repository has none
static_folder == {}

NoApp == [created |-> FALSE, url_map |-> {}, view_functions |-> {}]

add_url_rule_any_method(a, rule, endpoint, methods) ==
    [a EXCEPT
       !.url_map = @ \cup
           { [rule |-> rule, endpoint |-> endpoint, methods |-> Methods] },
       !.view_functions = @ \cup {endpoint}]

\* Flask.add_url_rule: HEAD accompanies GET, OPTIONS is added automatically
add_url_rule(a, rule, endpoint, methods) ==
    [a EXCEPT
       !.url_map = @ \cup
           { [rule |-> rule, endpoint |-> endpoint,
              methods |-> methods
                          \cup (IF "GET" \in methods THEN {"HEAD"} ELSE {})
                          \cup {"OPTIONS"}] },
       !.view_functions = @ \cup {endpoint}]

\* app = Flask(__name__)
Flask ==
    add_url_rule([NoApp EXCEPT !.created = TRUE],
                 <<"static", PathConverter>>, "static", {"GET"})

\* @app.route('/') applied to home
route(a) == add_url_rule(a, RootPath, "home", {"GET"})

home_truncated(a) == [rv |-> "Hello", app |-> a]

home_once(a) ==
    [rv  |-> IF "seen" \in a.view_functions THEN "Hello again" ELSE Greeting,
     app |-> [a EXCEPT !.view_functions = @ \cup {"seen"}]]

home_registering(a) ==
    [rv |-> Greeting, app |-> add_url_rule(a, <<"hits">>, "home", {"GET"})]

\* def home(): return "<greeting>"   -- return value and the program's state
home(a) == [rv |-> Greeting, app |-> a]

is_main_always == TRUE

\* __name__ == '__main__'
is_main == name = "__main__"

run_args_env ==
    [host |-> IF environ.HOST # "" THEN environ.HOST ELSE "0.0.0.0",
     port |-> IF environ.PORT # 0 THEN environ.PORT ELSE 5000]

\* the arguments of app.run(host='0.0.0.0', port=5000)
run_args == [host |-> "0.0.0.0", port |-> 5000]

ProgramRunFirst == <<"line1", "line2", "line8", "line4">>

\* the top-level statements of app.py in execution order
Program == <<"line1", "line2", "line4", "line8">>

\* the statement executed after statement l; "loaded" after the last one
following(l) ==
    LET i == CHOOSE j \in 1..Len(Program) : Program[j] = l
    IN  IF i < Len(Program) THEN Program[i + 1] ELSE "loaded"

----------------------------------------------------------------------------
(* Request dispatch *)

RuleMatchesPrefix(r, p) ==
    /\ Len(p) >= Len(r.rule)
    /\ \A i \in 1..Len(r.rule) :
          \/ p[i] = r.rule[i]
          \/ r.rule[i] = PathConverter /\ p[i] # ""

\* a rule matches a path: segment by segment; a trailing path converter
\* takes the rest of the path, which must not be empty
RuleMatches(r, p) ==
    IF r.rule # <<>> /\ r.rule[Len(r.rule)] = PathConverter
    THEN /\ Len(p) >= Len(r.rule)
         /\ \A i \in 1..(Len(r.rule) - 1) : p[i] = r.rule[i]
         /\ p[Len(r.rule)] # ""
    ELSE p = r.rule

MatchesFullUrl(r, req) == RuleMatches(r, req.path) /\ req.query = ""

\* the request as the router sees it: the URL is matched on its path only
MatchesRequest(r, req) == RuleMatches(r, req.path)

\* MapAdapter.match: endpoint, or 405 when only the method differs, or 404
url_match(a, req) ==
    LET byPath   == { r \in a.url_map : MatchesRequest(r, req) }
        byMethod == { r \in byPath : req.method \in r.methods }
    IN  IF byMethod # {}
        THEN [status |-> 200, endpoint |-> (CHOOSE r \in byMethod : TRUE).endpoint]
        ELSE IF byPath # {}
             THEN [status |-> 405, endpoint |-> ""]
             ELSE [status |-> 404, endpoint |-> ""]

\* send_static_file for the "static" endpoint
send_static_file(p) ==
    IF p[Len(p)] \in static_folder
    THEN [status |-> 200, body |-> "static file"]
    ELSE [status |-> 404, body |-> "Not Found"]

\* Flask.full_dispatch_request: the response, the view function called,
\* and the application object afterwards
full_dispatch_request(a, req) ==
    LET m == url_match(a, req)
    IN  IF m.status = 404
        THEN [response |-> [status |-> 404, body |-> "Not Found"],
              called |-> "", app |-> a]
        ELSE IF m.status = 405
        THEN [response |-> [status |-> 405, body |-> "Method Not Allowed"],
              called |-> "", app |-> a]
        ELSE IF req.method = "OPTIONS"
        THEN [response |-> [status |-> 200, body |-> ""],
              called |-> "", app |-> a]
        ELSE IF m.endpoint = "home" /\ "home" \in a.view_functions
        THEN LET h == home(a)
             IN  [response |-> [status |-> 200, body |-> h.rv],
                  called |-> "home", app |-> h.app]
        ELSE [response |-> send_static_file(req.path),
              called |-> "static", app |-> a]

\* Flask.wsgi_app: a HEAD response is sent without its body
wsgi_app(a, req) ==
    LET out == full_dispatch_request(a, req)
    IN  IF req.method = "HEAD"
        THEN [out EXCEPT !.response.body = ""]
        ELSE out

IsRootGet(req) == req.method = "GET" /\ req.path = RootPath

----------------------------------------------------------------------------
(* Threads of the development server *)

IdleThread == [st |-> "idle", req |-> NoReq, resp |-> NoResp, called |-> ""]

request_shared(t) ==
    threads[CHOOSE u \in Threads : threads[u].st = "accepted"].req

\* the request bound to thread t's request context
request(t) == threads[t].req

----------------------------------------------------------------------------
(* Initial state: the interpreter is about to execute app.py *)

Init ==
    /\ name \in Names
    /\ environ \in Environs
    /\ argv \in Argvs
    /\ pc = "line1"
    /\ app = NoApp
    /\ server = [listening |-> FALSE, host |-> "", port |-> 0, starts |-> 0]
    /\ handled = 0
    /\ last = [valid |-> FALSE, req |-> NoReq, resp |-> NoResp, called |-> ""]
    /\ firstRoot = [valid |-> FALSE, resp |-> NoResp, at |-> 0, between |-> FALSE]
    /\ prevRoot = [valid |-> FALSE, req |-> NoReq, resp |-> NoResp, at |-> 0]
    /\ threads = [t \in Threads |-> IdleThread]

InitConc ==
    /\ Init
    /\ environ = [HOST |-> "", PORT |-> 0]
    /\ argv = <<>>

----------------------------------------------------------------------------
(* Statements of app.py *)

history == <<handled, last, firstRoot, prevRoot, threads>>

\* line 1: from flask import Flask
ImportFlask ==
    /\ pc = "line1"
    /\ pc' = following("line1")
    /\ UNCHANGED <<name, environ, argv, app, server, history>>

\* line 2: app = Flask(__name__)
CreateApp ==
    /\ pc = "line2"
    /\ app' = Flask
    /\ pc' = following("line2")
    /\ UNCHANGED <<name, environ, argv, server, history>>

\* lines 4-6: @app.route('/') def home(): ...
RegisterHome ==
    /\ pc = "line4"
    /\ app' = route(app)
    /\ pc' = following("line4")
    /\ UNCHANGED <<name, environ, argv, server, history>>

\* line 8: if __name__ == '__main__':
MainGuard ==
    /\ pc = "line8"
    /\ pc' = IF is_main THEN "line9" ELSE following("line8")
    /\ UNCHANGED <<name, environ, argv, app, server, history>>

\* line 9: app.run(host='0.0.0.0', port=5000) binds and serves
Run ==
    /\ pc = "line9"
    /\ server' = [listening |-> TRUE, host |-> run_args.host,
                  port |-> run_args.port, starts |-> server.starts + 1]
    /\ pc' = "serving"
    /\ UNCHANGED <<name, environ, argv, app, history>>

Load == ImportFlask \/ CreateApp \/ RegisterHome \/ MainGuard \/ Run

\* the application answers requests once app.py has been executed: under
\* its own server (line 9) or under the program that imported it
Ready == pc \in {"serving", "loaded"}

----------------------------------------------------------------------------
(* Serial server: one request answered at a time *)

HandleRequest(req) ==
    /\ Ready
    /\ handled < MaxHandled
    /\ LET out == wsgi_app(app, req)
       IN  /\ app' = out.app
           /\ last' = [valid |-> TRUE, req |-> req, resp |-> out.response,
                       called |-> out.called]
           /\ firstRoot' =
                  IF ~firstRoot.valid /\ IsRootGet(req)
                  THEN [valid |-> TRUE, resp |-> out.response,
                        at |-> handled + 1, between |-> FALSE]
                  ELSE IF firstRoot.valid /\ ~IsRootGet(req)
                       THEN [firstRoot EXCEPT !.between = TRUE]
                       ELSE firstRoot
           /\ \/ prevRoot' = prevRoot
              \/ /\ IsRootGet(req)
                 /\ prevRoot' = [valid |-> TRUE, req |-> req,
                                 resp |-> out.response, at |-> handled + 1]
    /\ handled' = handled + 1
    /\ UNCHANGED <<name, environ, argv, pc, server, threads>>

Next == Load \/ \E req \in Requests : HandleRequest(req)

Spec == Init /\ [][Next]_vars

----------------------------------------------------------------------------
(* Threaded server: each request is answered on its own thread *)

\* a thread reads a request from its connection
Accept(t, req) ==
    /\ Ready
    /\ threads[t].st = "idle"
    /\ threads' = [threads EXCEPT ![t] = [IdleThread EXCEPT !.st = "accepted",
                                                           !.req = req]]
    /\ UNCHANGED <<name, environ, argv, pc, app, server, handled, last,
                   firstRoot, prevRoot>>

\* the thread calls the application with the request of its context
Dispatch(t) ==
    /\ threads[t].st = "accepted"
    /\ LET out == wsgi_app(app, request(t))
       IN  /\ app' = out.app
           /\ threads' = [threads EXCEPT ![t].st = "dispatched",
                                         ![t].resp = out.response,
                                         ![t].called = out.called]
    /\ UNCHANGED <<name, environ, argv, pc, server, handled, last,
                   firstRoot, prevRoot>>

\* the thread writes the response and is free again
Send(t) ==
    /\ threads[t].st = "dispatched"
    /\ threads' = [threads EXCEPT ![t] = IdleThread]
    /\ UNCHANGED <<name, environ, argv, pc, app, server, handled, last,
                   firstRoot, prevRoot>>

NextConc ==
    \/ Load
    \/ \E t \in Threads : \E req \in ConcRequests : Accept(t, req)
    \/ \E t \in Threads : Dispatch(t)
    \/ \E t \in Threads : Send(t)

SpecConc == InitConc /\ [][NextConc]_vars

----------------------------------------------------------------------------
(* Properties *)

Served == last.valid

Routes == { r.rule : r \in app.url_map }

StaticRule == <<"static", PathConverter>>

\* the path falls under the rule /static/<path:filename>
UnderStatic(p) == Len(p) >= 2 /\ p[1] = "static" /\ p[2] # ""

\* the response a request gets when it is the only request ever handled
AloneResponse(req) == wsgi_app(route(Flask), req).response

\* C1: every GET request whose path is exactly "/" is answered with status
\* 200 and a body equal to the greeting string, unmodified.
C1_RootGetGreeting ==
    (Served /\ IsRootGet(last.req)) =>
        (last.resp.status = 200 /\ last.resp.body = Greeting)

C1_Witness ==
    /\ Served
    /\ IsRootGet(last.req)
    /\ last.called = "home"
    /\ last.resp.status = 200

\* C2 (as stated): every request, of any method, whose path is not "/" is
\* answered 404 without invoking home and without the greeting.
C2_Original ==
    (Served /\ last.req.path # RootPath) =>
        /\ last.called # "home"
        /\ last.resp.status = 404
        /\ last.resp.body # Greeting

\* C2 (amended): no request whose path is not "/" invokes home; when the path
\* does not fall under the static rule /static/<path:filename> either, the
\* status is 404 and the body is not the greeting.
C2_OtherPaths ==
    (Served /\ last.req.path # RootPath) =>
        /\ last.called # "home"
        /\ ~UnderStatic(last.req.path) =>
              (last.resp.status = 404 /\ last.resp.body # Greeting)

C2_Witness ==
    /\ Served
    /\ last.req.path = <<"missing">>
    /\ last.req.method = "POST"
    /\ last.resp.status = 404

\* C3 (as stated): every request to "/" whose method is not GET, HEAD and
\* OPTIONS included, is answered 405 or 404 and never 200.
C3_Original ==
    (Served /\ last.req.path = RootPath /\ last.req.method # "GET") =>
        (last.resp.status \in {404, 405} /\ last.resp.status # 200)

\* C3 (amended): every request to "/" whose method is none of GET, HEAD and
\* OPTIONS is answered 405 or 404 and never 200; HEAD and OPTIONS requests to
\* "/" are answered 200 with an empty body, OPTIONS without invoking home.
C3_OtherMethods ==
    (Served /\ last.req.path = RootPath) =>
        /\ last.req.method \notin {"GET", "HEAD", "OPTIONS"} =>
              (last.resp.status \in {404, 405} /\ last.called = "")
        /\ last.req.method = "HEAD" =>
              (last.resp = [status |-> 200, body |-> ""] /\ last.called = "home")
        /\ last.req.method = "OPTIONS" =>
              (last.resp = [status |-> 200, body |-> ""] /\ last.called = "")

C3_Witness ==
    /\ Served
    /\ last.req.path = RootPath
    /\ last.req.method = "POST"
    /\ last.resp.status = 405

\* C4: after any sequence of earlier requests, a GET / gets the same status
\* and body as the very first GET / did.
C4_HistoryIndependent ==
    (Served /\ IsRootGet(last.req) /\ firstRoot.valid) =>
        last.resp = firstRoot.resp

C4_Witness ==
    /\ Served
    /\ IsRootGet(last.req)
    /\ firstRoot.valid
    /\ firstRoot.at = 1
    /\ firstRoot.between
    /\ handled = MaxHandled

\* C5: two GET / requests that differ in query string, headers or body get
\* the same status, 200, and the same body.
C5_InputIndependent ==
    (Served /\ IsRootGet(last.req) /\ prevRoot.valid) =>
        /\ last.resp.status = 200
        /\ prevRoot.resp.status = 200
        /\ last.resp.body = prevRoot.resp.body

C5_Witness ==
    /\ Served
    /\ IsRootGet(last.req)
    /\ prevRoot.valid
    /\ prevRoot.at < handled
    /\ prevRoot.req.query # last.req.query
    /\ last.resp.status = 200

\* C6: run as the main script, the program starts the server exactly once, on
\* host 0.0.0.0 and port 5000, whatever the environment and the command line.
C6_BoundOnce ==
    /\ server.starts <= 1
    /\ server.listening =>
          (server.host = "0.0.0.0" /\ server.port = 5000 /\ server.starts = 1)
    /\ (name = "__main__" /\ pc = "serving") => server.listening

C6_Witness ==
    /\ server.listening
    /\ environ.PORT = 8080
    /\ argv # <<>>

\* C7 (as stated): handling a request changes no state of the program, and
\* the registered routes are exactly one route, "/", after every request.
C7_Original ==
    [][Ready => /\ UNCHANGED <<name, pc, app, server>>
                /\ Routes' = {RootPath}]_vars

\* C7 (amended): handling a request changes no state of the program, and the
\* registered routes after every request are those present when the server
\* started: the route "/" and the static route /static/<path:filename>.
C7_Frame ==
    [][Ready => /\ UNCHANGED <<name, pc, app, server>>
                /\ Routes' = {RootPath, StaticRule}]_vars

C7_Witness ==
    /\ handled >= 2
    /\ last.called = "home"
    /\ firstRoot.between

\* C8: under concurrent handling every request gets the response it would get
\* if handled alone; each GET / gets 200 with the greeting.
C8_Isolated ==
    \A t \in Threads :
        threads[t].st = "dispatched" =>
            /\ threads[t].resp = AloneResponse(threads[t].req)
            /\ IsRootGet(threads[t].req) =>
                  threads[t].resp = [status |-> 200, body |-> Greeting]

C8_Witness ==
    \E t, u \in Threads :
        /\ t # u
        /\ threads[t].st = "dispatched"
        /\ IsRootGet(threads[t].req)
        /\ threads[u].st # "idle"
        /\ threads[u].req # threads[t].req

\* C9: whenever the server is listening the route "/" is registered, and no
\* GET / is answered 404.
C9_RouteBeforeRun ==
    /\ server.listening =>
          \E r \in app.url_map :
              r.rule = RootPath /\ r.endpoint = "home" /\ "GET" \in r.methods
    /\ (server.listening /\ Served /\ IsRootGet(last.req)) =>
          last.resp.status # 404

C9_Witness ==
    /\ server.listening
    /\ Served
    /\ IsRootGet(last.req)
    /\ last.resp.status = 200

\* C10: loaded as a module, the file creates the application and registers
\* "/" but never starts the server; app.run is reached only when __name__ is
\* "__main__".
C10_ImportDoesNotRun ==
    /\ pc \in {"line9", "serving"} => name = "__main__"
    /\ name # "__main__" => (server.starts = 0 /\ ~server.listening)
    /\ pc = "loaded" => (app.created /\ RootPath \in Routes)

C10_Witness ==
    /\ name # "__main__"
    /\ pc = "loaded"
    /\ RootPath \in Routes
    /\ Served

====
